---- MODULE Spec2Model ----
(***************************************************************************)
(* Model of the chequebook cashout service                                 *)
(* (pkg/settlement/swap/chequebook/cashout.go).                            *)
(*                                                                         *)
(* The state is the state store (one cashoutAction per chequebook key),    *)
(* the service mutex, the monitor goroutines with their position in        *)
(* monitorCashChequeBeneficiaryTransaction /                               *)
(* processCashChequeBeneficiaryReceipt, the callers of CashCheque with     *)
(* their position inside the critical section, the monitor context, the    *)
(* wait group (the monitors that have not finished), the installed         *)
(* notify-bounced function and the transactions sent to the chain with     *)
(* the receipt each one gets.                                              *)
(***************************************************************************)
EXTENDS Integers, Sequences, FiniteSets, TLC

\* ------------------------------------------------------------------ bounds

\* number of transactions TransactionService.Send accepts in one behaviour
MaxTx == 2

\* number of monitor goroutines one service instance spawns
MaxMonitors == 2

\* number of logs in a receipt handed to the parser
MaxLogs == 3

\* ------------------------------------------------------------ input sets

\* chequebook addresses (common.Address); 0 is the zero address
Chequebooks == {1, 2}

\* an address that is no chequebook of the model (the emitter of foreign logs)
OtherAddress == 9

\* goroutines calling CashCheque
Callers == {1, 2}

\* the goroutine whose calls of CashCheque the service model follows: the mutex lets
\* one call at a time into the critical section, so the calls of one goroutine,
\* one after the other, are the submissions the store and the monitors see
MainCallers == {1}

\* recipient argument of CashCheque
Recipients == {7}

\* SignedCheque
SignedCheque(chequebook, cumulativePayout) ==
    [Chequebook |-> chequebook, Beneficiary |-> 5,
     CumulativePayout |-> cumulativePayout,
     Signature |-> <<"sig", chequebook, cumulativePayout>>]

\* a pointer is the empty sequence (nil) or a one-element sequence
Nil == <<>>
Ptr(v) == <<v>>
Deref(p) == p[1]

\* ------------------------------------------------------------------ state

VARIABLES
    store,              \* StateStorer: key -> cashoutAction
    lock,               \* cashoutService.lock: <<"free", 0>>, <<"caller", p>>, <<"monitor", m>>
    callers,            \* per caller: position in CashCheque and its locals
    monitors,           \* sequence of monitor goroutines of this service instance
    monitorCtx,         \* "live" or "cancelled"
    closePc,            \* Close: "open", "waiting" (in wg.Wait) or "returned"
    notifyBouncedFunc,  \* "nil" or "set"
    panicked,           \* the process died of an unrecovered panic
    sent,               \* the TxRequests accepted by Send; the txHash is the index
    receipts,           \* txHash -> pointer to the receipt the chain produced
    termWrites,         \* txHash -> number of terminal Puts made for it
    notifyCalls,        \* txHash -> number of notifyBouncedFunc invocations
    requestCtx,         \* txHash -> the ctx of the CashCheque call that sent it:
                        \* "live" or "cancelled"
    call,               \* a call of a function that does not touch the service:
                        \* its name, its arguments and what it returned
    ret                 \* what the API call or monitor step that just ended returned

vars == <<store, lock, callers, monitors, monitorCtx, closePc, notifyBouncedFunc,
          panicked, sent, receipts, termWrites, notifyCalls, requestCtx, call, ret>>

TxHashes == 1 .. MaxTx

\* common.Hash{}
ZeroHash == 0

\* ------------------------------------------------------------- data model

\* cashoutActionKey: "cashout_" followed by the hex of the address
cashoutActionKey(chequebook) == <<"cashout_", chequebook>>

\* the cashoutAction struct
cashoutAction(txHash, cheque, result, reverted) ==
    [TxHash |-> txHash, Cheque |-> cheque, Result |-> result, Reverted |-> reverted]

\* (mutant) the status is built without the Reverted field
CashoutStatusOf_NoReverted(action) ==
    [TxHash |-> action.TxHash, Cheque |-> action.Cheque,
     Result |-> action.Result, Reverted |-> FALSE]

\* the CashoutStatus struct built by CashoutStatus()
CashoutStatusOf(action) ==
    [TxHash |-> action.TxHash, Cheque |-> action.Cheque,
     Result |-> action.Result, Reverted |-> action.Reverted]

\* (mutant) the action is put without its transaction hash
SubmittedAction_NoHash(txHash, cheque) == cashoutAction(ZeroHash, cheque, Nil, FALSE)

\* the action CashCheque puts: {TxHash: txHash, Cheque: *cheque, Result: nil, Reverted: false}
SubmittedAction(txHash, cheque) == cashoutAction(txHash, cheque, Nil, FALSE)

\* (mutant) the failed receipt is recorded without the reverted flag
RevertedAction_NotFlagged(action) == cashoutAction(action.TxHash, action.Cheque, Nil, FALSE)

\* the action put for a failed receipt
RevertedAction(action) == cashoutAction(action.TxHash, action.Cheque, Nil, TRUE)

\* (mutant) a bounce is recorded as a revert
CompletedAction_BounceIsRevert(action, result) ==
    cashoutAction(action.TxHash, action.Cheque, Ptr(result), result.Bounced)

\* (mutant) the completed action is put without the cheque's payout
CompletedAction_ChequeReset(action, result) ==
    cashoutAction(action.TxHash, SignedCheque(action.Cheque.Chequebook, 0),
                  Ptr(result), FALSE)

\* the action put for a successful receipt
CompletedAction(action, result) ==
    cashoutAction(action.TxHash, action.Cheque, Ptr(result), FALSE)

\* store.Put(key, value)
StorePut(s, key, value) ==
    [k \in DOMAIN s \cup {key} |-> IF k = key THEN value ELSE s[k]]

\* (mutant) the parser starts from a bounced result
EmptyResult_Bounced ==
    [Beneficiary |-> 0, Recipient |-> 0, Caller |-> 0,
     TotalPayout |-> Nil, CumulativePayout |-> Nil, CallerPayout |-> Nil,
     Bounced |-> TRUE]

\* the zero value of CashChequeResult with Bounced: false (addresses zero, *big.Int nil)
EmptyResult ==
    [Beneficiary |-> 0, Recipient |-> 0, Caller |-> 0,
     TotalPayout |-> Nil, CumulativePayout |-> Nil, CallerPayout |-> Nil,
     Bounced |-> FALSE]

\* ------------------------------------------------------- receipts and logs

\* ChequeCashed events a contract can emit
CashedEvent(total, cumulative) ==
    [Beneficiary |-> 5, Recipient |-> 7, Caller |-> 6,
     TotalPayout |-> Ptr(total), CumulativePayout |-> Ptr(cumulative),
     CallerPayout |-> Ptr(1)]

\* A log is its emitting address and what the binding makes of it:
\* Cashed is the event ParseChequeCashed returns (Nil when it fails),
\* Bounced says whether ParseChequeBounced succeeds.
Log(address, cashed, bounced) ==
    [Address |-> address, Cashed |-> cashed, Bounced |-> bounced]

\* the log lists of the receipts the chain produces in the service model
CashedLogs(chequebook) == << Log(chequebook, Ptr(CashedEvent(10, 10)), FALSE) >>

BouncedLogs(chequebook) ==
    << Log(chequebook, Ptr(CashedEvent(4, 10)), FALSE), Log(chequebook, Nil, TRUE) >>

ForeignLogs == << Log(OtherAddress, Nil, TRUE) >>

Receipt(txHash, status, logs) == [TxHash |-> txHash, Status |-> status, Logs |-> logs]

\* the receipts transaction txHash, sent to chequebook, can get
ReceiptsOf(txHash, chequebook) ==
    { Receipt(txHash, "failed", BouncedLogs(chequebook)),
      Receipt(txHash, "successful", CashedLogs(chequebook)),
      Receipt(txHash, "successful", BouncedLogs(chequebook)),
      Receipt(txHash, "successful", ForeignLogs) }

\* (mutant) the first ChequeCashed event wins
RECURSIVE ParseLogs_FirstWins(_, _, _)
ParseLogs_FirstWins(chequebookAddress, logs, result) ==
    IF logs = <<>> THEN result
    ELSE LET log == Head(logs)
             next ==
               IF log.Address # chequebookAddress THEN result
               ELSE IF log.Cashed # Nil THEN
                   IF result.TotalPayout # Nil THEN result
                   ELSE [result EXCEPT
                      !.Beneficiary = Deref(log.Cashed).Beneficiary,
                      !.Caller = Deref(log.Cashed).Caller,
                      !.CallerPayout = Deref(log.Cashed).CallerPayout,
                      !.TotalPayout = Deref(log.Cashed).TotalPayout,
                      !.CumulativePayout = Deref(log.Cashed).CumulativePayout,
                      !.Recipient = Deref(log.Cashed).Recipient]
               ELSE IF log.Bounced THEN [result EXCEPT !.Bounced = TRUE]
               ELSE result
         IN ParseLogs_FirstWins(chequebookAddress, Tail(logs), next)

\* parseCashChequeBeneficiaryReceipt's loop over receipt.Logs
RECURSIVE ParseLogs(_, _, _)
ParseLogs(chequebookAddress, logs, result) ==
    IF logs = <<>> THEN result
    ELSE LET log == Head(logs)
             next ==
               IF log.Address # chequebookAddress THEN result
               ELSE IF log.Cashed # Nil THEN
                   [result EXCEPT
                      !.Beneficiary = Deref(log.Cashed).Beneficiary,
                      !.Caller = Deref(log.Cashed).Caller,
                      !.CallerPayout = Deref(log.Cashed).CallerPayout,
                      !.TotalPayout = Deref(log.Cashed).TotalPayout,
                      !.CumulativePayout = Deref(log.Cashed).CumulativePayout,
                      !.Recipient = Deref(log.Cashed).Recipient]
               ELSE IF log.Bounced THEN [result EXCEPT !.Bounced = TRUE]
               ELSE result
         IN ParseLogs(chequebookAddress, Tail(logs), next)

\* parseCashChequeBeneficiaryReceipt, when simpleSwapBindingFunc succeeds
parseCashChequeBeneficiaryReceipt(chequebookAddress, receipt) ==
    ParseLogs(chequebookAddress, receipt.Logs, EmptyResult)

\* ---------------------------------------------------------- initial state

NoRet ==
    [op |-> "none", who |-> 0, chequebook |-> 0, txHash |-> ZeroHash,
     err |-> "nil", status |-> Nil]

\* no function call is under way
NoCall == [fn |-> "none", args |-> <<>>, out |-> Nil]

IdleCaller ==
    [pc |-> "idle", chequebook |-> 0, recipient |-> 0, cheque |-> Nil, txHash |-> ZeroHash]

Init ==
    /\ store = << >>
    /\ lock = <<"free", 0>>
    /\ callers = [p \in Callers |-> IdleCaller]
    /\ monitors = <<>>
    /\ monitorCtx = "live"
    /\ closePc = "open"
    /\ notifyBouncedFunc = "nil"
    /\ panicked = FALSE
    /\ sent = <<>>
    /\ receipts = [h \in TxHashes |-> Nil]
    /\ termWrites = [h \in TxHashes |-> 0]
    /\ notifyCalls = [h \in TxHashes |-> 0]
    /\ requestCtx = [h \in TxHashes |-> "live"]
    /\ call = NoCall
    /\ ret = NoRet

\* ------------------------------------------------------------ cheque store

\* ChequeStore.LastCheque(chequebook): the latest cheque of the chequebook. The
\* cumulative payout grows with every cheque received, so every submission
\* finds a later cheque than the one before it.
ChequeAfter(chequebook, n) == SignedCheque(chequebook, 10 * (n + 1))

LastCheque(chequebook) == ChequeAfter(chequebook, Len(sent))

\* ------------------------------------------------------------- wait group

\* the monitor goroutines that have not reached wg.Done()
LiveMonitors == { m \in DOMAIN monitors : monitors[m].pc # "done" }

\* the counter of cashoutService.wg
wg == Cardinality(LiveMonitors)

\* callers between a successful Send and the spawn of their monitor
SpawnsOwed == Cardinality({ p \in Callers : callers[p].pc \in {"sent", "stored"} })

\* monitorCashChequeBeneficiaryTransaction: WatchForReceipt, wg.Add(1), go func
NewMonitor(chequebook, txHash) ==
    [chequebook |-> chequebook, txHash |-> txHash, pc |-> "select", action |-> Nil]

monitorCashChequeBeneficiaryTransaction(ms, chequebook, txHash) ==
    Append(ms, NewMonitor(chequebook, txHash))

\* --------------------------------------------------------------- CashCheque

\* the transaction.TxRequest CashCheque builds
TxRequest(chequebook, recipient, cheque) ==
    [To |-> chequebook,
     Data |-> <<"cashChequeBeneficiary", recipient, cheque.CumulativePayout, cheque.Signature>>,
     GasPrice |-> Nil, GasLimit |-> 0, Value |-> 0]

\* CashCheque returns (txHash, err) and releases the mutex (defer s.lock.Unlock())
CashChequeReturn(p, txHash, err) ==
    /\ callers' = [callers EXCEPT ![p] = IdleCaller]
    /\ lock' = IF lock = <<"caller", p>> THEN <<"free", 0>> ELSE lock
    /\ ret' = [NoRet EXCEPT !.op = "CashCheque", !.who = p,
                            !.chequebook = callers[p].chequebook,
                            !.txHash = txHash, !.err = err]

\* s.lock.Lock() at the head of CashCheque
CashChequeLock(p, chequebook, recipient) ==
    /\ ~panicked
    /\ callers[p].pc = "idle"
    /\ lock = <<"free", 0>>
    /\ lock' = <<"caller", p>>
    /\ callers' = [callers EXCEPT ![p] =
                     [IdleCaller EXCEPT !.pc = "locked", !.chequebook = chequebook,
                                        !.recipient = recipient]]
    /\ ret' = NoRet
    /\ UNCHANGED <<store, monitors, monitorCtx, closePc, notifyBouncedFunc, panicked,
                   sent, receipts, termWrites, notifyCalls,
                   requestCtx, call>>

\* (mutant) the error is returned but an action is put all the same
CashChequeFail_StillPuts(p, err) ==
    /\ ~panicked
    /\ callers[p].pc = "locked"
    /\ store' = StorePut(store, cashoutActionKey(callers[p].chequebook),
                         SubmittedAction(ZeroHash, LastCheque(callers[p].chequebook)))
    /\ CashChequeReturn(p, ZeroHash, err)
    /\ UNCHANGED <<monitors, monitorCtx, closePc, notifyBouncedFunc, panicked,
                   sent, receipts, termWrites, notifyCalls,
                   requestCtx, call>>

\* LastCheque, chequebookABI.Pack or Send fails: the error is returned
CashChequeFail(p, err) ==
    /\ ~panicked
    /\ callers[p].pc = "locked"
    /\ CashChequeReturn(p, ZeroHash, err)
    /\ UNCHANGED <<store, monitors, monitorCtx, closePc, notifyBouncedFunc, panicked,
                   sent, receipts, termWrites, notifyCalls,
                   requestCtx, call>>

\* LastCheque, Pack and Send succeed: the transaction is on its way
CashChequeSend(p, cheque) ==
    /\ ~panicked
    /\ callers[p].pc = "locked"
    /\ cheque = LastCheque(callers[p].chequebook)
    /\ Len(sent) < MaxTx
    /\ Len(monitors) + SpawnsOwed < MaxMonitors
    /\ sent' = Append(sent, TxRequest(callers[p].chequebook, callers[p].recipient, cheque))
    /\ callers' = [callers EXCEPT ![p].pc = "sent", ![p].cheque = Ptr(cheque),
                                  ![p].txHash = Len(sent) + 1]
    /\ ret' = NoRet
    /\ UNCHANGED <<store, lock, monitors, monitorCtx, closePc, notifyBouncedFunc, panicked,
                   receipts, termWrites, notifyCalls,
                   requestCtx, call>>

\* (mutant) the monitor is spawned before the error of the Put is looked at
CashChequePutFail_StillSpawns(p) ==
    /\ ~panicked
    /\ callers[p].pc = "sent"
    /\ monitors' = monitorCashChequeBeneficiaryTransaction(
                       monitors, callers[p].chequebook, callers[p].txHash)
    /\ CashChequeReturn(p, ZeroHash, "ErrStore")
    /\ UNCHANGED <<store, monitorCtx, closePc, notifyBouncedFunc, panicked,
                   sent, receipts, termWrites, notifyCalls,
                   requestCtx, call>>

\* store.Put of the new action fails: the error is returned
CashChequePutFail(p) ==
    /\ ~panicked
    /\ callers[p].pc = "sent"
    /\ CashChequeReturn(p, ZeroHash, "ErrStore")
    /\ UNCHANGED <<store, monitors, monitorCtx, closePc, notifyBouncedFunc, panicked,
                   sent, receipts, termWrites, notifyCalls,
                   requestCtx, call>>

\* store.Put of the new action
CashChequePut(p) ==
    /\ ~panicked
    /\ callers[p].pc = "sent"
    /\ store' = StorePut(store, cashoutActionKey(callers[p].chequebook),
                         SubmittedAction(callers[p].txHash, Deref(callers[p].cheque)))
    /\ callers' = [callers EXCEPT ![p].pc = "stored"]
    /\ ret' = NoRet
    /\ UNCHANGED <<lock, monitors, monitorCtx, closePc, notifyBouncedFunc, panicked,
                   sent, receipts, termWrites, notifyCalls,
                   requestCtx, call>>

\* the monitor is spawned and CashCheque returns the txHash
CashChequeSpawn(p) ==
    /\ ~panicked
    /\ callers[p].pc = "stored"
    /\ monitors' = monitorCashChequeBeneficiaryTransaction(
                       monitors, callers[p].chequebook, callers[p].txHash)
    /\ CashChequeReturn(p, callers[p].txHash, "nil")
    /\ UNCHANGED <<store, monitorCtx, closePc, notifyBouncedFunc, panicked,
                   sent, receipts, termWrites, notifyCalls,
                   requestCtx, call>>

\* ----------------------------------------------------------------- monitor

\* a goroutine that has ended
DoneMonitor == [chequebook |-> 0, txHash |-> ZeroHash, pc |-> "done", action |-> Nil]

\* the goroutine ends: defer s.wg.Done()
MonitorDone(m) == [monitors EXCEPT ![m] = DoneMonitor]

\* a monitor step that ends the goroutine and reports err (what the goroutine logs)
MonitorReturn(m, op, err) ==
    /\ monitors' = MonitorDone(m)
    /\ lock' = IF lock = <<"monitor", m>> THEN <<"free", 0>> ELSE lock
    /\ ret' = [NoRet EXCEPT !.op = op, !.who = m,
                            !.chequebook = monitors[m].chequebook,
                            !.txHash = monitors[m].txHash, !.err = err]

\* (mutant) the monitor is bound to the ctx of the request
MonitorCtxDone_RequestCtx(m) ==
    /\ ~panicked
    /\ m \in DOMAIN monitors
    /\ monitors[m].pc = "select"
    /\ monitorCtx = "cancelled" \/ requestCtx[monitors[m].txHash] = "cancelled"
    /\ MonitorReturn(m, "ctxDone", "nil")
    /\ UNCHANGED <<store, callers, monitorCtx, closePc, notifyBouncedFunc, panicked,
                   sent, receipts, termWrites, notifyCalls, requestCtx, call>>

\* select: case <-s.monitorCtx.Done()
MonitorCtxDone(m) ==
    /\ ~panicked
    /\ m \in DOMAIN monitors
    /\ monitors[m].pc = "select"
    /\ monitorCtx = "cancelled"
    /\ MonitorReturn(m, "ctxDone", "nil")
    /\ UNCHANGED <<store, callers, monitorCtx, closePc, notifyBouncedFunc, panicked,
                   sent, receipts, termWrites, notifyCalls,
                   requestCtx, call>>

\* (mutant) a watch error is recorded as a revert of the watched action
MonitorErr_PersistsReverted(m) ==
    /\ ~panicked
    /\ m \in DOMAIN monitors
    /\ monitors[m].pc = "select"
    /\ store' = IF cashoutActionKey(monitors[m].chequebook) \in DOMAIN store
                  THEN StorePut(store, cashoutActionKey(monitors[m].chequebook),
                           RevertedAction(store[cashoutActionKey(monitors[m].chequebook)]))
                  ELSE store
    /\ MonitorReturn(m, "watchErr", "ErrWatch")
    /\ UNCHANGED <<callers, monitorCtx, closePc, notifyBouncedFunc, panicked,
                   sent, receipts, termWrites, notifyCalls,
                   requestCtx, call>>

\* select: case err := <-errC with a non-nil error, which is logged
MonitorErr(m) ==
    /\ ~panicked
    /\ m \in DOMAIN monitors
    /\ monitors[m].pc = "select"
    /\ MonitorReturn(m, "watchErr", "ErrWatch")
    /\ UNCHANGED <<store, callers, monitorCtx, closePc, notifyBouncedFunc, panicked,
                   sent, receipts, termWrites, notifyCalls,
                   requestCtx, call>>

\* select: errC or receiptC was closed by the cancelled context (err == nil,
\* receipt == nil)
MonitorChanClosed(m) ==
    /\ ~panicked
    /\ m \in DOMAIN monitors
    /\ monitors[m].pc = "select"
    /\ monitorCtx = "cancelled"
    /\ MonitorReturn(m, "chanClosed", "nil")
    /\ UNCHANGED <<store, callers, monitorCtx, closePc, notifyBouncedFunc, panicked,
                   sent, receipts, termWrites, notifyCalls,
                   requestCtx, call>>

\* (mutant) the receipt watch delivers a receipt under a cancelled context too
MonitorReceipt_CancelledCtx(m, receipt) ==
    /\ ~panicked
    /\ m \in DOMAIN monitors
    /\ monitors[m].pc = "select"
    /\ receipt \in ReceiptsOf(monitors[m].txHash, sent[monitors[m].txHash].To)
    /\ receipts[receipt.TxHash] \in {Nil, Ptr(receipt)}
    /\ receipts' = [receipts EXCEPT ![receipt.TxHash] = Ptr(receipt)]
    /\ monitors' = [monitors EXCEPT ![m].pc = "recv"]
    /\ ret' = NoRet
    /\ UNCHANGED <<store, lock, callers, monitorCtx, closePc, notifyBouncedFunc, panicked,
                   sent, termWrites, notifyCalls,
                   requestCtx, call>>

\* select: case receipt := <-receiptC with the receipt of the watched transaction
MonitorReceipt(m, receipt) ==
    /\ ~panicked
    /\ m \in DOMAIN monitors
    /\ monitors[m].pc = "select"
    /\ monitorCtx = "live"
    /\ receipt \in ReceiptsOf(monitors[m].txHash, sent[monitors[m].txHash].To)
    /\ receipts[receipt.TxHash] \in {Nil, Ptr(receipt)}
    /\ receipts' = [receipts EXCEPT ![receipt.TxHash] = Ptr(receipt)]
    /\ monitors' = [monitors EXCEPT ![m].pc = "recv"]
    /\ ret' = NoRet
    /\ UNCHANGED <<store, lock, callers, monitorCtx, closePc, notifyBouncedFunc, panicked,
                   sent, termWrites, notifyCalls,
                   requestCtx, call>>

\* the receipt monitor m is processing
ReceiptOf(m) == Deref(receipts[monitors[m].txHash])

\* processCashChequeBeneficiaryReceipt takes the mutex (s.lock.Lock()) and reads
\* the action; the three steps below are the three outcomes of that read.

\* store.Get fails: ErrNoCashout when the key is absent, the store's error otherwise
ProcessGetFail(m, storeFails) ==
    /\ ~panicked
    /\ m \in DOMAIN monitors
    /\ monitors[m].pc = "recv"
    /\ lock = <<"free", 0>>
    /\ storeFails \/ cashoutActionKey(monitors[m].chequebook) \notin DOMAIN store
    /\ MonitorReturn(m, "process",
                     IF storeFails THEN "ErrStore" ELSE "ErrNoCashout")
    /\ UNCHANGED <<store, callers, monitorCtx, closePc, notifyBouncedFunc, panicked,
                   sent, receipts, termWrites, notifyCalls,
                   requestCtx, call>>

\* (mutant) a failed receipt of a superseded transaction reverts the stored action
ProcessSuperseded_Writes(m) ==
    /\ ~panicked
    /\ m \in DOMAIN monitors
    /\ monitors[m].pc = "recv"
    /\ lock = <<"free", 0>>
    /\ cashoutActionKey(monitors[m].chequebook) \in DOMAIN store
    /\ ReceiptOf(m).TxHash # store[cashoutActionKey(monitors[m].chequebook)].TxHash
    /\ store' = IF ReceiptOf(m).Status = "failed"
                  THEN StorePut(store, cashoutActionKey(monitors[m].chequebook),
                           RevertedAction(store[cashoutActionKey(monitors[m].chequebook)]))
                  ELSE store
    /\ MonitorReturn(m, "superseded", "nil")
    /\ UNCHANGED <<callers, monitorCtx, closePc, notifyBouncedFunc, panicked,
                   sent, receipts, termWrites, notifyCalls,
                   requestCtx, call>>

\* store.Get succeeds and the receipt is not of the latest transaction: return nil
ProcessSuperseded(m) ==
    /\ ~panicked
    /\ m \in DOMAIN monitors
    /\ monitors[m].pc = "recv"
    /\ lock = <<"free", 0>>
    /\ cashoutActionKey(monitors[m].chequebook) \in DOMAIN store
    /\ ReceiptOf(m).TxHash # store[cashoutActionKey(monitors[m].chequebook)].TxHash
    /\ MonitorReturn(m, "superseded", "nil")
    /\ UNCHANGED <<store, callers, monitorCtx, closePc, notifyBouncedFunc, panicked,
                   sent, receipts, termWrites, notifyCalls,
                   requestCtx, call>>

\* (mutant) the receipt is processed whatever transaction the stored action is of
ProcessLoad_AnyHash(m) ==
    /\ ~panicked
    /\ m \in DOMAIN monitors
    /\ monitors[m].pc = "recv"
    /\ lock = <<"free", 0>>
    /\ cashoutActionKey(monitors[m].chequebook) \in DOMAIN store
    /\ lock' = <<"monitor", m>>
    /\ monitors' = [monitors EXCEPT ![m].pc = "loaded",
                      ![m].action = Ptr(store[cashoutActionKey(monitors[m].chequebook)])]
    /\ ret' = NoRet
    /\ UNCHANGED <<store, callers, monitorCtx, closePc, notifyBouncedFunc, panicked,
                   sent, receipts, termWrites, notifyCalls,
                   requestCtx, call>>

\* (mutant) the receipt is processed without the service mutex
ProcessLoad_NoLock(m) ==
    /\ ~panicked
    /\ m \in DOMAIN monitors
    /\ monitors[m].pc = "recv"
    /\ cashoutActionKey(monitors[m].chequebook) \in DOMAIN store
    /\ ReceiptOf(m).TxHash = store[cashoutActionKey(monitors[m].chequebook)].TxHash
    /\ monitors' = [monitors EXCEPT ![m].pc = "loaded",
                      ![m].action = Ptr(store[cashoutActionKey(monitors[m].chequebook)])]
    /\ ret' = NoRet
    /\ UNCHANGED <<store, lock, callers, monitorCtx, closePc, notifyBouncedFunc, panicked,
                   sent, receipts, termWrites, notifyCalls,
                   requestCtx, call>>

\* store.Get succeeds and the receipt is of the stored transaction
ProcessLoad(m) ==
    /\ ~panicked
    /\ m \in DOMAIN monitors
    /\ monitors[m].pc = "recv"
    /\ lock = <<"free", 0>>
    /\ cashoutActionKey(monitors[m].chequebook) \in DOMAIN store
    /\ ReceiptOf(m).TxHash = store[cashoutActionKey(monitors[m].chequebook)].TxHash
    /\ lock' = <<"monitor", m>>
    /\ monitors' = [monitors EXCEPT ![m].pc = "loaded",
                      ![m].action = Ptr(store[cashoutActionKey(monitors[m].chequebook)])]
    /\ ret' = NoRet
    /\ UNCHANGED <<store, callers, monitorCtx, closePc, notifyBouncedFunc, panicked,
                   sent, receipts, termWrites, notifyCalls,
                   requestCtx, call>>

\* the action processCashChequeBeneficiaryReceipt holds in its local variable
LoadedAction(m) == Deref(monitors[m].action)

\* receipt.Status == types.ReceiptStatusFailed: the action is put as reverted
ProcessReverted(m, putFails) ==
    /\ ~panicked
    /\ m \in DOMAIN monitors
    /\ monitors[m].pc = "loaded"
    /\ ReceiptOf(m).Status = "failed"
    /\ IF putFails
         THEN UNCHANGED <<store, termWrites>>
         ELSE /\ store' = StorePut(store, cashoutActionKey(monitors[m].chequebook),
                             RevertedAction(LoadedAction(m)))
              /\ termWrites' = [termWrites EXCEPT ![LoadedAction(m).TxHash] = @ + 1]
    /\ MonitorReturn(m, "reverted", IF putFails THEN "ErrStore" ELSE "nil")
    /\ UNCHANGED <<callers, monitorCtx, closePc, notifyBouncedFunc, panicked,
                   sent, receipts, notifyCalls,
                   requestCtx, call>>

\* the receipt is successful but simpleSwapBindingFunc fails, or the Put of the
\* parsed result fails
ProcessFail(m, err) ==
    /\ ~panicked
    /\ m \in DOMAIN monitors
    /\ monitors[m].pc = "loaded"
    /\ ReceiptOf(m).Status # "failed"
    /\ err \in {"ErrBinding", "ErrStore"}
    /\ MonitorReturn(m, "completed", err)
    /\ UNCHANGED <<store, callers, monitorCtx, closePc, notifyBouncedFunc, panicked,
                   sent, receipts, termWrites, notifyCalls,
                   requestCtx, call>>

\* the receipt is successful: it is parsed and the action is put with the result
ProcessCompleted(m) ==
    /\ ~panicked
    /\ m \in DOMAIN monitors
    /\ monitors[m].pc = "loaded"
    /\ ReceiptOf(m).Status # "failed"
    /\ LET result == parseCashChequeBeneficiaryReceipt(monitors[m].chequebook, ReceiptOf(m))
       IN /\ store' = StorePut(store, cashoutActionKey(monitors[m].chequebook),
                         CompletedAction(LoadedAction(m), result))
          /\ termWrites' = [termWrites EXCEPT ![LoadedAction(m).TxHash] = @ + 1]
          /\ IF result.Bounced
               THEN /\ monitors' = [monitors EXCEPT ![m].pc = "notify"]
                    /\ ret' = NoRet
                    /\ UNCHANGED lock
               ELSE MonitorReturn(m, "completed", "nil")
    /\ UNCHANGED <<callers, monitorCtx, closePc, notifyBouncedFunc, panicked,
                   sent, receipts, notifyCalls,
                   requestCtx, call>>

\* result.Bounced: s.notifyBouncedFunc(chequebook) is called and returns err
ProcessNotify(m, err) ==
    /\ ~panicked
    /\ m \in DOMAIN monitors
    /\ monitors[m].pc = "notify"
    /\ notifyBouncedFunc # "nil"
    /\ err \in {"nil", "ErrNotify"}
    /\ notifyCalls' = [notifyCalls EXCEPT ![ReceiptOf(m).TxHash] = @ + 1]
    /\ MonitorReturn(m, "notified", err)
    /\ UNCHANGED <<store, callers, monitorCtx, closePc, notifyBouncedFunc, panicked,
                   sent, receipts, termWrites,
                   requestCtx, call>>

\* result.Bounced with no function installed: the call of a nil func panics, the
\* deferred Unlock and wg.Done run and the unrecovered panic ends the process
ProcessNotifyNil(m) ==
    /\ ~panicked
    /\ m \in DOMAIN monitors
    /\ monitors[m].pc = "notify"
    /\ notifyBouncedFunc = "nil"
    /\ panicked' = TRUE
    /\ MonitorReturn(m, "panic", "nil")
    /\ UNCHANGED <<store, callers, monitorCtx, closePc, notifyBouncedFunc,
                   sent, receipts, termWrites, notifyCalls,
                   requestCtx, call>>

\* -------------------------------------------------------------------- Start

\* the chequebooks with an action in the store
StoredChequebooks == { c \in Chequebooks : cashoutActionKey(c) \in DOMAIN store }

\* store.Iterate("cashout_", ...) visits the keys in ascending order
RECURSIVE Ascending(_)
Ascending(S) ==
    IF S = {} THEN <<>>
    ELSE LET x == CHOOSE x \in S : \A y \in S : x <= y
         IN <<x>> \o Ascending(S \ {x})

IterateKeys == Ascending(StoredChequebooks)

\* (mutant) Start looks at the result only
InFlight_ResultOnly(action) == action.Result = Nil

\* Start's test: cashoutAction.Result == nil && !cashoutAction.Reverted
InFlight(action) == action.Result = Nil /\ ~action.Reverted

\* (mutant) Start binds the monitor to the cheque's beneficiary
RECURSIVE StartCallbacks_Beneficiary(_, _)
StartCallbacks_Beneficiary(ms, keys) ==
    IF keys = <<>> THEN ms
    ELSE LET action == store[cashoutActionKey(Head(keys))]
         IN StartCallbacks_Beneficiary(
              IF InFlight(action)
                THEN monitorCashChequeBeneficiaryTransaction(
                         ms, action.Cheque.Beneficiary, action.TxHash)
                ELSE ms,
              Tail(keys))

\* (mutant) Start spawns a monitor for every stored action
RECURSIVE StartCallbacks_All(_, _)
StartCallbacks_All(ms, keys) ==
    IF keys = <<>> THEN ms
    ELSE LET action == store[cashoutActionKey(Head(keys))]
         IN StartCallbacks_All(
              monitorCashChequeBeneficiaryTransaction(
                  ms, action.Cheque.Chequebook, action.TxHash),
              Tail(keys))

\* the callback of Start applied to the keys of `keys`, in order
RECURSIVE StartCallbacks(_, _)
StartCallbacks(ms, keys) ==
    IF keys = <<>> THEN ms
    ELSE LET action == store[cashoutActionKey(Head(keys))]
         IN StartCallbacks(
              IF InFlight(action)
                THEN monitorCashChequeBeneficiaryTransaction(
                         ms, action.Cheque.Chequebook, action.TxHash)
                ELSE ms,
              Tail(keys))

\* Start: the first n keys are read; when fails, the next Get (or the iterator)
\* returns an error, which ends the iteration and is returned
Start(n, fails) ==
    /\ ~panicked
    /\ n \in 0 .. Len(IterateKeys)
    /\ n < Len(IterateKeys) => fails
    /\ LET after == StartCallbacks(monitors, SubSeq(IterateKeys, 1, n))
       IN /\ Len(after) + SpawnsOwed <= MaxMonitors
          /\ monitors' = after
    /\ ret' = [NoRet EXCEPT !.op = "Start", !.err = IF fails THEN "ErrStore" ELSE "nil"]
    /\ UNCHANGED <<store, lock, callers, monitorCtx, closePc, notifyBouncedFunc, panicked,
                   sent, receipts, termWrites, notifyCalls,
                   requestCtx, call>>

\* ---------------------------------------------- the other service operations

\* SetNotifyBouncedFunc
SetNotifyBouncedFunc ==
    /\ ~panicked
    /\ notifyBouncedFunc = "nil"
    /\ notifyBouncedFunc' = "set"
    /\ ret' = NoRet
    /\ UNCHANGED <<store, lock, callers, monitors, monitorCtx, closePc, panicked,
                   sent, receipts, termWrites, notifyCalls,
                   requestCtx, call>>

\* CashoutStatus: one store.Get, without the mutex
CashoutStatus(chequebookAddress, storeFails) ==
    /\ ~panicked
    /\ LET key == cashoutActionKey(chequebookAddress)
       IN ret' = [NoRet EXCEPT
                    !.op = "CashoutStatus",
                    !.chequebook = chequebookAddress,
                    !.err = IF storeFails THEN "ErrStore"
                            ELSE IF key \notin DOMAIN store THEN "ErrNoCashout"
                            ELSE "nil",
                    !.status = IF storeFails \/ key \notin DOMAIN store THEN Nil
                               ELSE Ptr(CashoutStatusOf(store[key]))]
    /\ UNCHANGED <<store, lock, callers, monitors, monitorCtx, closePc, notifyBouncedFunc,
                   panicked, sent, receipts, termWrites, notifyCalls,
                   requestCtx, call>>

\* Close: s.monitorCtxCancel(), then s.wg.Wait() begins
CloseCancel ==
    /\ ~panicked
    /\ closePc = "open"
    /\ monitorCtx' = "cancelled"
    /\ closePc' = "waiting"
    /\ ret' = NoRet
    /\ UNCHANGED <<store, lock, callers, monitors, notifyBouncedFunc, panicked,
                   sent, receipts, termWrites, notifyCalls,
                   requestCtx, call>>

\* (mutant) Close returns without waiting for the monitors
CloseReturn_NoWait ==
    /\ ~panicked
    /\ closePc = "waiting"
    /\ closePc' = "returned"
    /\ ret' = [NoRet EXCEPT !.op = "Close"]
    /\ UNCHANGED <<store, lock, callers, monitors, monitorCtx, notifyBouncedFunc, panicked,
                   sent, receipts, termWrites, notifyCalls,
                   requestCtx, call>>

\* Close: s.wg.Wait() returns once the counter is zero, and Close returns nil
CloseReturn ==
    /\ ~panicked
    /\ closePc = "waiting"
    /\ wg = 0
    /\ closePc' = "returned"
    /\ ret' = [NoRet EXCEPT !.op = "Close"]
    /\ UNCHANGED <<store, lock, callers, monitors, monitorCtx, notifyBouncedFunc, panicked,
                   sent, receipts, termWrites, notifyCalls,
                   requestCtx, call>>

\* NewCashoutService in a new process over the same store, after the old process
\* ended (closed with no call in progress, or dead of a panic)
NewCashoutService ==
    /\ \/ panicked
       \/ closePc = "returned" /\ \A p \in Callers : callers[p].pc = "idle"
    /\ lock' = <<"free", 0>>
    /\ callers' = [p \in Callers |-> IdleCaller]
    /\ monitors' = <<>>
    /\ monitorCtx' = "live"
    /\ closePc' = "open"
    /\ notifyBouncedFunc' = "nil"
    /\ panicked' = FALSE
    /\ ret' = NoRet
    /\ UNCHANGED <<store, sent, receipts, termWrites, notifyCalls,
                   requestCtx, call>>

\* ------------------------------------------------------------ specification

Monitors == 1 .. MaxMonitors

AllReceipts == UNION { ReceiptsOf(h, c) : h \in TxHashes, c \in Chequebooks }

Next ==
    \/ \E p \in MainCallers, c \in Chequebooks, r \in Recipients : CashChequeLock(p, c, r)
    \/ \E p \in MainCallers, e \in {"ErrLastCheque", "ErrPack", "ErrSend"} :
          CashChequeFail(p, e)
    \/ \E p \in MainCallers : CashChequeSend(p, LastCheque(callers[p].chequebook))
    \/ \E p \in MainCallers : CashChequePutFail(p)
    \/ \E p \in MainCallers : CashChequePut(p)
    \/ \E p \in MainCallers : CashChequeSpawn(p)
    \/ \E m \in Monitors : MonitorCtxDone(m)
    \/ \E m \in Monitors : MonitorErr(m)
    \/ \E m \in Monitors : MonitorChanClosed(m)
    \/ \E m \in Monitors, receipt \in AllReceipts : MonitorReceipt(m, receipt)
    \/ \E m \in Monitors, f \in BOOLEAN : ProcessGetFail(m, f)
    \/ \E m \in Monitors : ProcessSuperseded(m)
    \/ \E m \in Monitors : ProcessLoad(m)
    \/ \E m \in Monitors, f \in BOOLEAN : ProcessReverted(m, f)
    \/ \E m \in Monitors, e \in {"ErrBinding", "ErrStore"} : ProcessFail(m, e)
    \/ \E m \in Monitors : ProcessCompleted(m)
    \/ \E m \in Monitors, e \in {"nil", "ErrNotify"} : ProcessNotify(m, e)
    \/ \E m \in Monitors : ProcessNotifyNil(m)
    \/ \E n \in 0 .. Cardinality(Chequebooks), f \in BOOLEAN : Start(n, f)
    \/ SetNotifyBouncedFunc
    \/ \E c \in Chequebooks, f \in BOOLEAN : CashoutStatus(c, f)
    \/ CloseCancel
    \/ CloseReturn

Spec == Init /\ [][Next]_vars

\* the service model with process restarts: the operations that write the
\* service's state or the store (CashoutStatus, which only reads, is left to
\* Next), and the making of a new service over the same store
NextRestart ==
    \/ \E p \in MainCallers, c \in Chequebooks, r \in Recipients : CashChequeLock(p, c, r)
    \/ \E p \in MainCallers, e \in {"ErrLastCheque", "ErrPack", "ErrSend"} :
          CashChequeFail(p, e)
    \/ \E p \in MainCallers : CashChequeSend(p, LastCheque(callers[p].chequebook))
    \/ \E p \in MainCallers : CashChequePutFail(p)
    \/ \E p \in MainCallers : CashChequePut(p)
    \/ \E p \in MainCallers : CashChequeSpawn(p)
    \/ \E m \in Monitors : MonitorCtxDone(m)
    \/ \E m \in Monitors : MonitorErr(m)
    \/ \E m \in Monitors : MonitorChanClosed(m)
    \/ \E m \in Monitors, receipt \in AllReceipts : MonitorReceipt(m, receipt)
    \/ \E m \in Monitors, f \in BOOLEAN : ProcessGetFail(m, f)
    \/ \E m \in Monitors : ProcessSuperseded(m)
    \/ \E m \in Monitors : ProcessLoad(m)
    \/ \E m \in Monitors, f \in BOOLEAN : ProcessReverted(m, f)
    \/ \E m \in Monitors, e \in {"ErrBinding", "ErrStore"} : ProcessFail(m, e)
    \/ \E m \in Monitors : ProcessCompleted(m)
    \/ \E m \in Monitors, e \in {"nil", "ErrNotify"} : ProcessNotify(m, e)
    \/ \E m \in Monitors : ProcessNotifyNil(m)
    \/ \E n \in 0 .. Cardinality(Chequebooks), f \in BOOLEAN : Start(n, f)
    \/ SetNotifyBouncedFunc
    \/ CloseCancel
    \/ CloseReturn
    \/ NewCashoutService

SpecRestart == Init /\ [][NextRestart]_vars

\* --------------------------------------------- the functions without state

\* a ChequeCashed event whose address fields are the zero address
ZeroAddressEvent ==
    [Beneficiary |-> 0, Recipient |-> 0, Caller |-> 0,
     TotalPayout |-> Ptr(4), CumulativePayout |-> Ptr(10), CallerPayout |-> Ptr(1)]

\* the logs a receipt can hold: emitted by one of the chequebooks, decoding as
\* a ChequeCashed event or not, and as a ChequeBounced event or not
Logs ==
    { Log(address, cashed, bounced) :
        address \in Chequebooks,
        cashed \in {Nil, Ptr(CashedEvent(10, 10)), Ptr(CashedEvent(4, 10)),
                    Ptr(ZeroAddressEvent)},
        bounced \in BOOLEAN }

\* receipt.Logs: the sequences of at most MaxLogs logs
LogSeqs == UNION { [1 .. n -> Logs] : n \in 0 .. MaxLogs }

\* the results parseCashChequeBeneficiaryReceipt returns, which are the results
\* the service puts in the store
ParsedResults ==
    { parseCashChequeBeneficiaryReceipt(c, Receipt(1, "successful", logs)) :
        c \in Chequebooks, logs \in LogSeqs }

\* math/big: whether x.Cmp(y) panics. Cmp reads x.neg and y.neg, so a nil
\* operand is a nil pointer dereference; a Cmp that first tests x == y returns 0
\* for two nil operands, one that does not panics on them too.
CmpPanics(build, x, y) ==
    IF x = Nil /\ y = Nil THEN build = "derefs" ELSE x = Nil \/ y = Nil

\* math/big: x.Cmp(y) when it does not panic
Cmp(x, y) ==
    IF x = Nil /\ y = Nil THEN 0
    ELSE IF Deref(x) < Deref(y) THEN -1
    ELSE IF Deref(x) > Deref(y) THEN 1
    ELSE 0

\* the builds of math/big
Builds == {"same pointer first", "derefs"}

\* CashChequeResult.Equal: "true", "false" or "panic"
Equal(build, r, o) ==
    IF r.Beneficiary # o.Beneficiary THEN "false"
    ELSE IF r.Bounced # o.Bounced THEN "false"
    ELSE IF r.Caller # o.Caller THEN "false"
    ELSE IF CmpPanics(build, r.CallerPayout, o.CallerPayout) THEN "panic"
    ELSE IF Cmp(r.CallerPayout, o.CallerPayout) # 0 THEN "false"
    ELSE IF CmpPanics(build, r.CumulativePayout, o.CumulativePayout) THEN "panic"
    ELSE IF Cmp(r.CumulativePayout, o.CumulativePayout) # 0 THEN "false"
    ELSE IF r.Recipient # o.Recipient THEN "false"
    ELSE IF CmpPanics(build, r.TotalPayout, o.TotalPayout) THEN "panic"
    ELSE IF Cmp(r.TotalPayout, o.TotalPayout) # 0 THEN "false"
    ELSE "true"

\* (mutant) an action that already has its result is reverted by the receipt
ProcessReceipt_RevertsCompleted(s, chequebook, receipt) ==
    LET key == cashoutActionKey(chequebook)
    IN IF key \notin DOMAIN s THEN s
       ELSE IF receipt.TxHash # s[key].TxHash THEN s
       ELSE IF receipt.Status = "failed" \/ s[key].Result # Nil
         THEN StorePut(s, key, RevertedAction(s[key]))
       ELSE StorePut(s, key,
                CompletedAction(s[key],
                    parseCashChequeBeneficiaryReceipt(chequebook, receipt)))

\* processCashChequeBeneficiaryReceipt as a function of the store, with the
\* store and the binding not failing: the store it leaves
ProcessReceipt(s, chequebook, receipt) ==
    LET key == cashoutActionKey(chequebook)
    IN IF key \notin DOMAIN s THEN s
       ELSE IF receipt.TxHash # s[key].TxHash THEN s
       ELSE IF receipt.Status = "failed"
         THEN StorePut(s, key, RevertedAction(s[key]))
       ELSE StorePut(s, key,
                CompletedAction(s[key],
                    parseCashChequeBeneficiaryReceipt(chequebook, receipt)))

\* the log lists of the receipts handed to processCashChequeBeneficiaryReceipt
ReceiptLogs(chequebook) ==
    { <<>>, CashedLogs(chequebook), BouncedLogs(chequebook), ForeignLogs }

\* the actions the service stores for a chequebook: in flight, reverted or
\* completed, of any transaction
StoredActions(chequebook) ==
    UNION { { SubmittedAction(h, ChequeAfter(chequebook, h - 1)),
              RevertedAction(SubmittedAction(h, ChequeAfter(chequebook, h - 1))) }
            \cup { CompletedAction(SubmittedAction(h, ChequeAfter(chequebook, h - 1)),
                       parseCashChequeBeneficiaryReceipt(chequebook,
                           Receipt(h, "successful", logs))) :
                     logs \in {CashedLogs(chequebook), BouncedLogs(chequebook)} } :
            h \in TxHashes }

\* the stores: for every chequebook no action or one of its actions
Stores ==
    UNION { { s \in [ {cashoutActionKey(c) : c \in S} ->
                        UNION { StoredActions(c) : c \in S } ] :
                \A c \in S : s[cashoutActionKey(c)] \in StoredActions(c) } :
            S \in SUBSET Chequebooks }

\* the calls to make: a receipt to parse for a chequebook, three results to
\* compare with each other, or a receipt to process on a store
InitCalls ==
    /\ store = << >>
    /\ lock = <<"free", 0>>
    /\ callers = [p \in Callers |-> IdleCaller]
    /\ monitors = <<>>
    /\ monitorCtx = "live"
    /\ closePc = "open"
    /\ notifyBouncedFunc = "nil"
    /\ panicked = FALSE
    /\ sent = <<>>
    /\ receipts = [h \in TxHashes |-> Nil]
    /\ termWrites = [h \in TxHashes |-> 0]
    /\ notifyCalls = [h \in TxHashes |-> 0]
    /\ requestCtx = [h \in TxHashes |-> "live"]
    /\ ret = NoRet
    /\ \/ \E c \in Chequebooks, logs \in LogSeqs :
             call = [fn |-> "parseCashChequeBeneficiaryReceipt",
                     args |-> <<c, Receipt(1, "successful", logs)>>, out |-> Nil]
       \/ \E r, o, t \in ParsedResults :
             call = [fn |-> "Equal", args |-> <<r, o, t>>, out |-> Nil]
       \/ \E s \in Stores, c \in Chequebooks, h \in TxHashes,
             status \in {"failed", "successful"} :
             \E logs \in ReceiptLogs(c) :
                call = [fn |-> "processCashChequeBeneficiaryReceipt",
                        args |-> <<s, c, Receipt(h, status, logs)>>, out |-> Nil]

\* parseCashChequeBeneficiaryReceipt(chequebookAddress, receipt) returns
ParseCall ==
    /\ call.fn = "parseCashChequeBeneficiaryReceipt"
    /\ call.out = Nil
    /\ call' = [call EXCEPT !.out =
                   Ptr(parseCashChequeBeneficiaryReceipt(call.args[1], call.args[2]))]
    /\ UNCHANGED <<store, lock, callers, monitors, monitorCtx, closePc, notifyBouncedFunc,
                   panicked, sent, receipts, termWrites, notifyCalls, requestCtx, ret>>

\* r.Equal(r), r.Equal(o), o.Equal(r), o.Equal(t) and r.Equal(t) return or panic
EqualCall(build) ==
    /\ call.fn = "Equal"
    /\ call.out = Nil
    /\ LET r == call.args[1]
           o == call.args[2]
           t == call.args[3]
       IN call' = [call EXCEPT !.out =
                     Ptr([rr |-> Equal(build, r, r), ro |-> Equal(build, r, o),
                          or |-> Equal(build, o, r), ot |-> Equal(build, o, t),
                          rt |-> Equal(build, r, t)])]
    /\ UNCHANGED <<store, lock, callers, monitors, monitorCtx, closePc, notifyBouncedFunc,
                   panicked, sent, receipts, termWrites, notifyCalls, requestCtx, ret>>

\* processCashChequeBeneficiaryReceipt(chequebook, receipt) is run on the store
\* once, and twice in a row
ProcessCall ==
    /\ call.fn = "processCashChequeBeneficiaryReceipt"
    /\ call.out = Nil
    /\ LET once == ProcessReceipt(call.args[1], call.args[2], call.args[3])
       IN call' = [call EXCEPT !.out =
                     Ptr([once |-> once,
                          twice |-> ProcessReceipt(once, call.args[2], call.args[3])])]
    /\ UNCHANGED <<store, lock, callers, monitors, monitorCtx, closePc, notifyBouncedFunc,
                   panicked, sent, receipts, termWrites, notifyCalls, requestCtx, ret>>

NextCalls ==
    \/ ParseCall
    \/ ProcessCall
    \/ \E build \in Builds : EqualCall(build)

SpecCalls == InitCalls /\ [][NextCalls]_vars

\* ------------------------------------------------------- the request context

\* the caller of CashCheque cancels the ctx it passed to the call that sent
\* transaction h (CashCheque hands ctx to transactionService.Send only)
CancelRequestCtx(h) ==
    /\ ~panicked
    /\ h \in 1 .. Len(sent)
    /\ requestCtx[h] = "live"
    /\ requestCtx' = [requestCtx EXCEPT ![h] = "cancelled"]
    /\ ret' = NoRet
    /\ UNCHANGED <<store, lock, callers, monitors, monitorCtx, closePc, notifyBouncedFunc,
                   panicked, sent, receipts, termWrites, notifyCalls,
                   call>>

\* the service with callers that cancel their request contexts
NextRequestCtx ==
    \/ Next
    \/ \E h \in TxHashes : CancelRequestCtx(h)

SpecRequestCtx == Init /\ [][NextRequestCtx]_vars

\* ------------------------------------------------- concurrent CashCheque calls

\* CashCheque is called: the goroutine reaches s.lock.Lock()
CashChequeCall(p, chequebook, recipient) ==
    /\ ~panicked
    /\ callers[p].pc = "idle"
    /\ callers' = [callers EXCEPT ![p] =
                     [IdleCaller EXCEPT !.pc = "waiting", !.chequebook = chequebook,
                                        !.recipient = recipient]]
    /\ ret' = NoRet
    /\ UNCHANGED <<store, lock, monitors, monitorCtx, closePc, notifyBouncedFunc, panicked,
                   sent, receipts, termWrites, notifyCalls,
                   requestCtx, call>>

\* (mutant) CashCheque runs without the service mutex
CashChequeAcquire_NoMutex(p) ==
    /\ ~panicked
    /\ callers[p].pc = "waiting"
    /\ callers' = [callers EXCEPT ![p].pc = "locked"]
    /\ ret' = NoRet
    /\ UNCHANGED <<store, lock, monitors, monitorCtx, closePc, notifyBouncedFunc, panicked,
                   sent, receipts, termWrites, notifyCalls,
                   requestCtx, call>>

\* s.lock.Lock() returns: the goroutine has the mutex
CashChequeAcquire(p) ==
    /\ ~panicked
    /\ callers[p].pc = "waiting"
    /\ lock = <<"free", 0>>
    /\ lock' = <<"caller", p>>
    /\ callers' = [callers EXCEPT ![p].pc = "locked"]
    /\ ret' = NoRet
    /\ UNCHANGED <<store, monitors, monitorCtx, closePc, notifyBouncedFunc, panicked,
                   sent, receipts, termWrites, notifyCalls,
                   requestCtx, call>>

\* the service with two goroutines calling CashCheque at the same time
NextCallers ==
    \/ \E p \in Callers, c \in Chequebooks, r \in Recipients : CashChequeCall(p, c, r)
    \/ \E p \in Callers : CashChequeAcquire(p)
    \/ \E p \in Callers, e \in {"ErrLastCheque", "ErrPack", "ErrSend"} :
          CashChequeFail(p, e)
    \/ \E p \in Callers : CashChequeSend(p, LastCheque(callers[p].chequebook))
    \/ \E p \in Callers : CashChequePutFail(p)
    \/ \E p \in Callers : CashChequePut(p)
    \/ \E p \in Callers : CashChequeSpawn(p)
    \/ \E m \in Monitors : MonitorCtxDone(m)
    \/ \E m \in Monitors : MonitorErr(m)
    \/ \E m \in Monitors : MonitorChanClosed(m)
    \/ \E m \in Monitors, receipt \in AllReceipts : MonitorReceipt(m, receipt)
    \/ \E m \in Monitors, f \in BOOLEAN : ProcessGetFail(m, f)
    \/ \E m \in Monitors : ProcessSuperseded(m)
    \/ \E m \in Monitors : ProcessLoad(m)
    \/ \E m \in Monitors, f \in BOOLEAN : ProcessReverted(m, f)
    \/ \E m \in Monitors, e \in {"ErrBinding", "ErrStore"} : ProcessFail(m, e)
    \/ \E m \in Monitors : ProcessCompleted(m)
    \/ \E m \in Monitors, e \in {"nil", "ErrNotify"} : ProcessNotify(m, e)
    \/ \E m \in Monitors : ProcessNotifyNil(m)
    \/ SetNotifyBouncedFunc
    \/ CloseCancel
    \/ CloseReturn

SpecCallers == Init /\ [][NextCallers]_vars

\* ---------------------------------------------------------------- scheduling

\* a CashCheque that holds the mutex goes on: LastCheque, Pack, Send and Put
\* return, with or without an error
CashChequeStep(p) ==
    \/ \E e \in {"ErrLastCheque", "ErrPack", "ErrSend"} : CashChequeFail(p, e)
    \/ CashChequeSend(p, LastCheque(callers[p].chequebook))
    \/ CashChequePutFail(p)
    \/ CashChequePut(p)
    \/ CashChequeSpawn(p)

\* processCashChequeBeneficiaryReceipt gets the mutex (s.lock.Lock()) and reads
\* the action
ProcessLockStep(m) ==
    \/ \E f \in BOOLEAN : ProcessGetFail(m, f)
    \/ ProcessSuperseded(m)
    \/ ProcessLoad(m)

\* processCashChequeBeneficiaryReceipt, holding the mutex, goes on to its return
ProcessStep(m) ==
    \/ \E f \in BOOLEAN : ProcessReverted(m, f)
    \/ \E e \in {"ErrBinding", "ErrStore"} : ProcessFail(m, e)
    \/ ProcessCompleted(m)
    \/ \E e \in {"nil", "ErrNotify"} : ProcessNotify(m, e)
    \/ ProcessNotifyNil(m)

\* The goroutines are scheduled fairly: a goroutine that can take a step takes
\* it, and one that waits for the mutex gets it (sync.Mutex hands the lock to a
\* waiter that has waited long, so a waiter is not passed over for ever).
Fairness ==
    /\ \A p \in MainCallers : WF_vars(CashChequeStep(p))
    /\ \A m \in Monitors : WF_vars(MonitorCtxDone(m))
    /\ \A m \in Monitors : SF_vars(ProcessLockStep(m))
    /\ \A m \in Monitors : WF_vars(ProcessStep(m))
    /\ WF_vars(CloseReturn)

\* the service model under fair scheduling
SpecLive == Init /\ [][Next]_vars /\ Fairness

\* ------------------------------------------------------- claims: vocabulary

Key(c) == cashoutActionKey(c)

Stored(c) == Key(c) \in DOMAIN store

Completed(action) == action.Result # Nil

Terminal(action) == ~InFlight(action)

\* the step in which monitor m takes the mutex and reads the stored action
ProcessesReceipt(m) ==
    /\ m \in DOMAIN monitors
    /\ m \in DOMAIN monitors'
    /\ monitors[m].pc = "recv"
    /\ monitors'[m].pc # "recv"

\* the step in which monitor m, holding the loaded action, handles the receipt
HandlesReceipt(m) ==
    /\ m \in DOMAIN monitors
    /\ m \in DOMAIN monitors'
    /\ monitors[m].pc = "loaded"
    /\ monitors'[m].pc # "loaded"

\* the receipt of transaction h is known and has the given status
HasReceipt(h, status) ==
    /\ h \in TxHashes
    /\ receipts[h] # Nil
    /\ Deref(receipts[h]).Status = status

\* ----------------------------------------------------------------------- C1
\* C1: in every reachable state every stored action has a result only if it is
\* not reverted, and is reverted only if it has no result.
C1_ResultExcludesReverted ==
    \A k \in DOMAIN store :
        /\ store[k].Result # Nil => store[k].Reverted = FALSE
        /\ store[k].Reverted = TRUE => store[k].Result = Nil

\* a reverted action and a completed, bounced action are stored side by side
C1_Witness ==
    \E c, d \in Chequebooks :
        /\ Stored(c) /\ Stored(d)
        /\ store[Key(c)].Reverted
        /\ Completed(store[Key(d)])
        /\ Deref(store[Key(d)].Result).Bounced

\* ----------------------------------------------------------------------- C2
\* C2 as claimed: once an action is terminal no later step writes its key again
\* while its txHash is the stored one, that is, a transaction gets at most one
\* terminal write (and a terminal action is reverted or completed, not both).
C2_AtMostOneTerminalWrite ==
    /\ \A h \in TxHashes : termWrites[h] <= 1
    /\ \A k \in DOMAIN store : ~(store[k].Reverted /\ Completed(store[k]))

\* C2 as amended: once an action is terminal its stored value does not change
\* while its txHash is the stored one (a second monitor of the same transaction
\* puts the same terminal action again), and a terminal action is reverted or
\* completed, not both.
C2_TerminalValueIsFinal ==
    [][\A c \in Chequebooks :
          (Stored(c) /\ Terminal(store[Key(c)])
             /\ Key(c) \in DOMAIN store'
             /\ store'[Key(c)].TxHash = store[Key(c)].TxHash)
          => /\ store'[Key(c)] = store[Key(c)]
             /\ store[Key(c)].Reverted # Completed(store[Key(c)])]_vars

\* a terminal action that was put twice
C2_Witness ==
    \E c \in Chequebooks :
        /\ Stored(c)
        /\ Terminal(store[Key(c)])
        /\ termWrites[store[Key(c)].TxHash] = 2

\* ----------------------------------------------------------------------- C3
\* C3: when a monitor reads the stored action and its receipt is of another
\* transaction than the stored one, processing returns nil, the store is
\* unchanged and the notify-bounced function is not called.
C3_SupersededReceiptIgnored ==
    [][\A m \in Monitors :
          (ProcessesReceipt(m)
             /\ Stored(monitors[m].chequebook)
             /\ ReceiptOf(m).TxHash # store[Key(monitors[m].chequebook)].TxHash
             /\ ret'.err # "ErrStore")
          => /\ ret'.op = "superseded"
             /\ ret'.err = "nil"
             /\ store' = store
             /\ termWrites' = termWrites
             /\ notifyCalls' = notifyCalls
             /\ monitors'[m].pc = "done"
             /\ lock' = <<"free", 0>>]_vars

\* a late receipt of the first transaction was ignored after the second
\* submission for the same chequebook
C3_Witness ==
    /\ ret.op = "superseded"
    /\ Stored(ret.chequebook)
    /\ ret.txHash = 1
    /\ store[Key(ret.chequebook)].TxHash = 2

\* ----------------------------------------------------------------------- C4
\* C4: a monitor that receives a non-nil error from the error channel ends
\* without writing the store, and an action is stored as reverted only when the
\* receipt of its transaction has status failed.
C4_WatchErrorWritesNothing ==
    [][/\ ret'.op = "watchErr"
          => /\ store' = store
             /\ termWrites' = termWrites
             /\ notifyCalls' = notifyCalls
             /\ ret'.who \in DOMAIN monitors'
             /\ monitors'[ret'.who].pc = "done"
       /\ \A k \in DOMAIN store' :
             store'[k].Reverted
               => /\ receipts'[store'[k].TxHash] # Nil
                  /\ Deref(receipts'[store'[k].TxHash]).Status = "failed"]_vars

\* a monitor ended on a watch error and its action is still in flight
C4_Witness ==
    /\ ret.op = "watchErr"
    /\ Stored(ret.chequebook)
    /\ store[Key(ret.chequebook)].TxHash = ret.txHash
    /\ InFlight(store[Key(ret.chequebook)])

\* ----------------------------------------------------------------------- C5
\* C5: when CashCheque returns a txHash h without error, the store holds under
\* the chequebook's key the action {h, the cheque LastCheque returned in the
\* call, no result, not reverted} and the call has spawned one monitor of
\* (chequebook, h).
C5_CashChequeStoresAndSpawns ==
    [][\A p \in Callers :
          (callers[p].pc # "idle" /\ callers'[p].pc = "idle" /\ ret'.err = "nil")
          => LET c == callers[p].chequebook
                 h == ret'.txHash
             IN /\ ret'.op = "CashCheque"
                /\ h \in 1 .. Len(sent)
                /\ sent[h].To = c
                /\ Key(c) \in DOMAIN store'
                /\ store'[Key(c)] = cashoutAction(h, ChequeAfter(c, h - 1), Nil, FALSE)
                /\ \A d \in Chequebooks \ {c} :
                      /\ Stored(d) <=> Key(d) \in DOMAIN store'
                      /\ Stored(d) => store'[Key(d)] = store[Key(d)]
                /\ monitors' = Append(monitors,
                      [chequebook |-> c, txHash |-> h, pc |-> "select", action |-> Nil])]_vars

\* the second submission for a chequebook has returned and replaced the first
C5_Witness ==
    /\ ret.op = "CashCheque"
    /\ ret.err = "nil"
    /\ ret.txHash = 2
    /\ sent[1].To = ret.chequebook
    /\ store[Key(ret.chequebook)].TxHash = 2

\* ----------------------------------------------------------------------- C6
\* C6: when LastCheque, the ABI encoding or Send fails, CashCheque returns that
\* error and no txHash, sends nothing, leaves the store unchanged and spawns no
\* monitor.
C6_EarlyFailureChangesNothing ==
    [][\A p \in Callers :
          (callers[p].pc = "locked" /\ callers'[p].pc = "idle")
          => /\ ret'.op = "CashCheque"
             /\ ret'.err \in {"ErrLastCheque", "ErrPack", "ErrSend"}
             /\ ret'.txHash = ZeroHash
             /\ sent' = sent
             /\ store' = store
             /\ monitors' = monitors
             /\ lock' = <<"free", 0>>]_vars

\* a call failed at Send while an action and its monitor existed
C6_Witness ==
    /\ ret.op = "CashCheque"
    /\ ret.err = "ErrSend"
    /\ Stored(ret.chequebook)
    /\ Len(monitors) > 0

\* ----------------------------------------------------------------------- C7
\* C7: when the Put fails after a successful Send, CashCheque returns the error
\* and no txHash, spawns no monitor and leaves the store unchanged, so no
\* stored action and no monitor is of the sent transaction.
C7_PutFailureLeavesTxUntracked ==
    [][\A p \in Callers :
          (callers[p].pc = "sent" /\ callers'[p].pc = "idle")
          => /\ ret'.op = "CashCheque"
             /\ ret'.err = "ErrStore"
             /\ ret'.txHash = ZeroHash
             /\ callers[p].txHash \in 1 .. Len(sent')
             /\ store' = store
             /\ monitors' = monitors
             /\ \A k \in DOMAIN store' : store'[k].TxHash # callers[p].txHash
             /\ \A m \in DOMAIN monitors' : monitors'[m].txHash # callers[p].txHash
             /\ lock' = <<"free", 0>>]_vars

\* the Put of the second submission failed and the first action is still stored
C7_Witness ==
    /\ ret.op = "CashCheque"
    /\ ret.err = "ErrStore"
    /\ Len(sent) = 2
    /\ Stored(ret.chequebook)
    /\ store[Key(ret.chequebook)].TxHash = 1

\* ----------------------------------------------------------------------- C8
\* C8: CashoutStatus returns ErrNoCashout exactly when no action is stored for
\* the chequebook (the store answering the read), otherwise the status with
\* the stored action's TxHash, Cheque, Result and Reverted; it leaves the store
\* unchanged and spawns no monitor.
C8_StatusIsStoredAction ==
    [][ret'.op = "CashoutStatus"
         => /\ store' = store
            /\ monitors' = monitors
            /\ ret'.err # "ErrStore"
                 => /\ ret'.err = "ErrNoCashout" <=> ~Stored(ret'.chequebook)
                    /\ ret'.err = "ErrNoCashout" => ret'.status = Nil
                    /\ Stored(ret'.chequebook)
                         => /\ ret'.err = "nil"
                            /\ ret'.status # Nil
                            /\ Deref(ret'.status).TxHash = store[Key(ret'.chequebook)].TxHash
                            /\ Deref(ret'.status).Cheque = store[Key(ret'.chequebook)].Cheque
                            /\ Deref(ret'.status).Result = store[Key(ret'.chequebook)].Result
                            /\ Deref(ret'.status).Reverted
                                 = store[Key(ret'.chequebook)].Reverted]_vars

\* the status of a reverted action was returned while the other chequebook has
\* no action
C8_Witness ==
    /\ ret.op = "CashoutStatus"
    /\ ret.err = "nil"
    /\ Deref(ret.status).Reverted
    /\ \E d \in Chequebooks : ~Stored(d)

\* ----------------------------------------------------------------------- C9
\* C9: when a monitor handles a failed receipt of the stored transaction, the
\* stored action becomes {same txHash, same cheque, no result, reverted}
\* (when the Put fails it stays as it was and the error is returned), the logs
\* are not parsed (no result, no binding error) and the notify-bounced
\* function is not called.
C9_FailedReceiptReverts ==
    [][\A m \in Monitors :
          (HandlesReceipt(m) /\ ReceiptOf(m).Status = "failed")
          => LET k == Key(monitors[m].chequebook)
             IN /\ ret'.op = "reverted"
                /\ ret'.err \in {"nil", "ErrStore"}
                /\ ret'.err = "nil"
                     => store' = [store EXCEPT ![k] =
                                    [TxHash |-> store[k].TxHash, Cheque |-> store[k].Cheque,
                                     Result |-> Nil, Reverted |-> TRUE]]
                /\ ret'.err = "ErrStore" => store' = store
                /\ notifyCalls' = notifyCalls
                /\ monitors'[m].pc = "done"
                /\ panicked' = panicked]_vars

\* a failed receipt that carries a ChequeBounced log has reverted its action
C9_Witness ==
    /\ ret.op = "reverted"
    /\ ret.err = "nil"
    /\ Stored(ret.chequebook)
    /\ store[Key(ret.chequebook)].Reverted
    /\ store[Key(ret.chequebook)].TxHash = ret.txHash
    /\ Deref(receipts[ret.txHash]).Logs # <<>>

\* ---------------------------------------------------------------------- C10
\* the result the receipt of transaction h parses to, for the chequebook it
\* was sent to
ParsedResult(h) == parseCashChequeBeneficiaryReceipt(sent[h].To, Deref(receipts[h]))

\* C10: for every transaction whose successful receipt holds a ChequeBounced
\* event of the chequebook and whose txHash is the stored one, the
\* notify-bounced function is called exactly once (never twice, and once when
\* the processing of the receipt returns nil), and it is never called for a
\* receipt whose parsed result has bounced = false.
C10_BounceNotifiedExactlyOnce ==
    /\ \A h \in TxHashes : notifyCalls[h] <= 1
    /\ \A h \in TxHashes :
          notifyCalls[h] > 0
            => /\ receipts[h] # Nil
               /\ Deref(receipts[h]).Status = "successful"
               /\ ParsedResult(h).Bounced
    /\ (ret.op \in {"completed", "notified"} /\ ret.err = "nil"
          /\ ParsedResult(ret.txHash).Bounced)
         => notifyCalls[ret.txHash] = 1

\* ---------------------------------------------------------------------- C11
\* the live monitors bound to chequebook c in the monitor list ms
LiveMonitorsOf(ms, c) ==
    { m \in DOMAIN ms : ms[m].pc # "done" /\ ms[m].chequebook = c }

\* C11: when Start scans the store without error at a moment when no monitor
\* of the service is alive (Close has joined them all, or the service is a new
\* one over the same store), then as Start returns every chequebook whose
\* stored action has no result and is not reverted has exactly one live
\* monitor, which waits for that action's txHash, and every chequebook whose
\* stored action is reverted or completed has none.
C11_RestartResumesInFlight ==
    [][(ret'.op = "Start" /\ ret'.err = "nil" /\ wg = 0)
         => \A c \in Chequebooks :
               Stored(c)
                 => LET a == store[Key(c)]
                        live == LiveMonitorsOf(monitors', c)
                    IN /\ (a.Result = Nil /\ ~a.Reverted)
                            => /\ Cardinality(live) = 1
                               /\ \A m \in live : /\ monitors'[m].txHash = a.TxHash
                                                  /\ monitors'[m].pc = "select"
                       /\ (a.Result # Nil \/ a.Reverted) => live = {}]_vars

\* a new service over a store with one action in flight and one terminal action
\* has been started: its only monitor is the one of the action in flight
C11_Witness ==
    /\ ret.op = "Start"
    /\ ret.err = "nil"
    /\ closePc = "open"
    /\ monitorCtx = "live"
    /\ Len(monitors) = 1
    /\ \E c, d \in Chequebooks :
          /\ Stored(c) /\ Stored(d)
          /\ InFlight(store[Key(c)])
          /\ Terminal(store[Key(d)])
          /\ monitors[1].chequebook = c
          /\ monitors[1].txHash = store[Key(c)].TxHash
          /\ monitors[1].pc = "select"

\* ---------------------------------------------------------------------- C12
\* C12: in the step in which Close returns, the monitor context is cancelled
\* and every monitor goroutine the service has spawned, by Start or by a
\* CashCheque (one being in progress or not), has ended; Close returns nil.
C12_CloseJoinsMonitors ==
    [][(closePc = "waiting" /\ closePc' = "returned")
         => /\ monitorCtx' = "cancelled"
            /\ \A m \in DOMAIN monitors' : monitors'[m].pc = "done"
            /\ monitors' = monitors
            /\ ret'.op = "Close"
            /\ ret'.err = "nil"]_vars

\* Close has returned after joining two monitors, one spawned by CashCheque
\* and one by Start, while another CashCheque is inside its critical section
C12_Witness ==
    /\ ret.op = "Close"
    /\ closePc = "returned"
    /\ Len(monitors) = 2
    /\ Len(sent) = 1
    /\ \E p \in Callers : callers[p].pc = "locked"

C13_ReturnsUnlessPanicked ==
    /\ (closePc = "waiting") ~> (closePc = "returned" \/ panicked)
    /\ \A m \in Monitors :
          (monitorCtx = "cancelled" /\ m \in LiveMonitors)
             ~> (m \notin LiveMonitors \/ panicked)

\* ---------------------------------------------------------------------- C14
\* C14: while a monitor is between loading the stored action of chequebook C
\* and its terminal write, it holds the mutex, no CashCheque is inside its
\* critical section and the stored action is still the loaded one, of the
\* receipt's transaction; no CashCheque puts an action in that interval; and
\* every step that makes a stored action terminal keeps its txHash, so a
\* terminal write for transaction T replaces an action of T only.
C14_NoSubmissionInsideTerminalWrite ==
    /\ [](\A m \in DOMAIN monitors :
            monitors[m].pc = "loaded"
              => /\ lock = <<"monitor", m>>
                 /\ \A p \in Callers : callers[p].pc = "idle"
                 /\ Stored(monitors[m].chequebook)
                 /\ store[Key(monitors[m].chequebook)] = LoadedAction(m)
                 /\ LoadedAction(m).TxHash = ReceiptOf(m).TxHash
                 /\ monitors[m].txHash = ReceiptOf(m).TxHash)
    /\ [][/\ (\E p \in Callers : callers[p].pc = "sent" /\ callers'[p].pc = "stored")
             => \A m \in DOMAIN monitors : monitors[m].pc \notin {"loaded", "notify"}
          /\ \A c \in Chequebooks :
                (Stored(c) /\ store'[Key(c)] # store[Key(c)]
                   /\ (store'[Key(c)].Result # Nil \/ store'[Key(c)].Reverted))
                => /\ store'[Key(c)].TxHash = store[Key(c)].TxHash
                   /\ store'[Key(c)].Cheque = store[Key(c)].Cheque
                   /\ \E m \in DOMAIN monitors :
                         /\ monitors[m].pc = "loaded"
                         /\ monitors[m].chequebook = c
                         /\ monitors[m].txHash = store[Key(c)].TxHash]_vars

\* the terminal write of the second transaction of a chequebook was made: the
\* CashCheque that submitted it ran before the monitor loaded the action
C14_Witness ==
    /\ ret.op \in {"reverted", "completed"}
    /\ ret.err = "nil"
    /\ ret.txHash = 2
    /\ sent[1].To = ret.chequebook
    /\ Terminal(store[Key(ret.chequebook)])
    /\ store[Key(ret.chequebook)].TxHash = 2

\* ---------------------------------------------------------------------- C15
\* the positions of CashCheque inside its critical section
InCriticalSection(p) == callers[p].pc \in {"locked", "sent", "stored"}

\* C15: with two goroutines calling CashCheque at the same time, at most one
\* is inside the critical section (LastCheque, Send, Put, spawn) and it holds
\* the mutex; a Send is made only while no other call is between its own Send
\* and its return; and when a call returns its txHash, that transaction is the
\* one sent last and the stored action of the chequebook carries its txHash
\* and its cheque.
C15_CriticalSectionsDoNotOverlap ==
    /\ [](\A p \in Callers :
            InCriticalSection(p)
              => /\ lock = <<"caller", p>>
                 /\ \A q \in Callers \ {p} : ~InCriticalSection(q))
    /\ [][\A p \in Callers :
            /\ (callers[p].pc = "locked" /\ callers'[p].pc = "sent")
                 => /\ \A q \in Callers \ {p} : callers[q].pc \in {"idle", "waiting"}
                    /\ callers'[p].txHash = Len(sent')
            /\ (callers[p].pc = "stored" /\ callers'[p].pc = "idle")
                 => LET c == callers[p].chequebook
                    IN /\ ret'.err = "nil"
                       /\ ret'.txHash = Len(sent)
                       /\ sent[Len(sent)].To = c
                       /\ store'[Key(c)].TxHash = Len(sent)
                       /\ store'[Key(c)].Cheque = ChequeAfter(c, Len(sent) - 1)]_vars

\* two calls for the same chequebook were in progress together: the second
\* has sent and put its transaction while the first, whose transaction was
\* sent and put before, has returned; another call waits for the mutex
C15_Witness ==
    \E p, q \in Callers :
        /\ p # q
        /\ callers[p].pc = "stored"
        /\ callers[p].txHash = 2
        /\ callers[q].pc = "waiting"
        /\ callers[q].chequebook = callers[p].chequebook
        /\ sent[1].To = callers[p].chequebook
        /\ store[Key(callers[p].chequebook)].TxHash = 2

\* ---------------------------------------------------------------------- C16
\* C16: the cancellation of the ctx of a CashCheque call leaves the monitors as
\* they are; a monitor waiting in its select ends only on the cancelled monitor
\* context (Close), on a watch error or on a receipt; a waiting monitor whose
\* request ctx is cancelled can still be handed its receipt while the monitor
\* context is live; and when it then handles that receipt without a store or
\* binding error the stored action becomes terminal.
C16_RequestCtxDoesNotStopMonitor ==
    /\ [](\A m \in DOMAIN monitors :
            (monitors[m].pc = "select" /\ monitorCtx = "live" /\ ~panicked
               /\ requestCtx[monitors[m].txHash] = "cancelled")
              => ENABLED (\E receipt \in AllReceipts : MonitorReceipt(m, receipt)))
    /\ [][/\ requestCtx' # requestCtx
              => /\ monitors' = monitors
                 /\ store' = store
                 /\ monitorCtx' = monitorCtx
          /\ \A m \in DOMAIN monitors :
                (monitors[m].pc = "select" /\ m \in DOMAIN monitors'
                   /\ monitors'[m].pc = "done")
                => \/ ret'.op \in {"ctxDone", "chanClosed"} /\ monitorCtx = "cancelled"
                   \/ ret'.op = "watchErr"
          /\ \A m \in DOMAIN monitors :
                (HandlesReceipt(m) /\ requestCtx[monitors[m].txHash] = "cancelled"
                   /\ ret'.err = "nil")
                => LET a == store'[Key(monitors[m].chequebook)]
                   IN /\ a.TxHash = monitors[m].txHash
                      /\ a.Reverted = (ReceiptOf(m).Status = "failed")
                      /\ (a.Result # Nil) = (ReceiptOf(m).Status # "failed")]_vars

\* the receipt of a transaction was processed into a completed action after the
\* ctx of the call that sent it had been cancelled
C16_Witness ==
    /\ ret.op = "completed"
    /\ ret.err = "nil"
    /\ requestCtx[ret.txHash] = "cancelled"
    /\ monitorCtx = "live"
    /\ Completed(store[Key(ret.chequebook)])
    /\ store[Key(ret.chequebook)].TxHash = ret.txHash

\* ---------------------------------------------------------------------- C17
\* all seven fields of r and o are equal, the numbers by value
SameFields(r, o) ==
    /\ r.Beneficiary = o.Beneficiary
    /\ r.Recipient = o.Recipient
    /\ r.Caller = o.Caller
    /\ r.Bounced = o.Bounced
    /\ r.TotalPayout = o.TotalPayout
    /\ r.CumulativePayout = o.CumulativePayout
    /\ r.CallerPayout = o.CallerPayout

\* C17: for all results r, o, t the parser returns, Equal returns (it does not
\* panic), r.Equal(r) is true, r.Equal(o) is o.Equal(r), r.Equal(o) and
\* o.Equal(t) give r.Equal(t), and r.Equal(o) is true exactly when the seven
\* fields of r and o are equal.
C17_EqualIsEquivalence ==
    (call.fn = "Equal" /\ call.out # Nil)
      => LET r == call.args[1]
             o == call.args[2]
             e == Deref(call.out)
         IN /\ e.rr = "true"
            /\ e.ro \in {"true", "false"}
            /\ e.ro = e.or
            /\ (e.ro = "true" /\ e.ot = "true") => e.rt = "true"
            /\ (e.ro = "true") <=> SameFields(r, o)

\* ---------------------------------------------------------------------- C18
\* the positions in logs of the logs emitted by the chequebook
OwnLogs(chequebookAddress, logs) ==
    { i \in DOMAIN logs : logs[i].Address = chequebookAddress }

\* the reference result: the fields of the last own log decoding as
\* ChequeCashed (unset when there is none), bounced when some own log does not
\* decode as ChequeCashed and decodes as ChequeBounced
ReferenceResult(chequebookAddress, logs) ==
    LET own == OwnLogs(chequebookAddress, logs)
        cashed == { i \in own : logs[i].Cashed # Nil }
        bounced == \E i \in own : logs[i].Cashed = Nil /\ logs[i].Bounced
    IN IF cashed = {}
         THEN [Beneficiary |-> 0, Recipient |-> 0, Caller |-> 0,
               TotalPayout |-> Nil, CumulativePayout |-> Nil, CallerPayout |-> Nil,
               Bounced |-> bounced]
         ELSE LET last == CHOOSE i \in cashed : \A j \in cashed : j <= i
                  event == Deref(logs[last].Cashed)
              IN [Beneficiary |-> event.Beneficiary, Recipient |-> event.Recipient,
                  Caller |-> event.Caller, TotalPayout |-> event.TotalPayout,
                  CumulativePayout |-> event.CumulativePayout,
                  CallerPayout |-> event.CallerPayout, Bounced |-> bounced]

\* C18: for every chequebook and every sequence of logs, the result the
\* parser returns is the reference result: logs of other addresses are
\* ignored, the six payout and address fields are those of the last log of
\* the chequebook that decodes as ChequeCashed, bounced is true exactly when
\* some log of the chequebook does not decode as ChequeCashed and decodes as
\* ChequeBounced, and logs decoding as neither change nothing.
C18_ParserMatchesReference ==
    (call.fn = "parseCashChequeBeneficiaryReceipt" /\ call.out # Nil)
      => Deref(call.out) = ReferenceResult(call.args[1], call.args[2].Logs)

\* a receipt with two different ChequeCashed logs of the chequebook followed
\* by a ChequeBounced log of another address was parsed: the second event's
\* fields, not bounced
C18_Witness ==
    /\ call.fn = "parseCashChequeBeneficiaryReceipt"
    /\ call.out # Nil
    /\ LET c == call.args[1]
           logs == call.args[2].Logs
       IN /\ Len(logs) = 3
          /\ logs[1].Address = c /\ logs[1].Cashed = Ptr(CashedEvent(10, 10))
          /\ logs[2].Address = c /\ logs[2].Cashed = Ptr(CashedEvent(4, 10))
          /\ logs[3].Address # c /\ logs[3].Cashed = Nil /\ logs[3].Bounced
          /\ Deref(call.out).TotalPayout = Ptr(4)
          /\ ~Deref(call.out).Bounced

\* ---------------------------------------------------------------------- C19
\* C19: a step in which a monitor puts a terminal action for chequebook C
\* leaves the TxHash and the Cheque stored for C as they were, which is as
\* CashCheque wrote them (the transaction's hash and the cheque of the call
\* that sent it), changes Result and Reverted only, and leaves the actions of
\* all other chequebooks and the set of stored keys unchanged.
C19_TerminalWriteFrame ==
    [][\A m \in Monitors :
          (HandlesReceipt(m) /\ store' # store)
          => LET c == monitors[m].chequebook
                 h == monitors[m].txHash
             IN /\ DOMAIN store' = DOMAIN store
                /\ store'[Key(c)].TxHash = store[Key(c)].TxHash
                /\ store'[Key(c)].Cheque = store[Key(c)].Cheque
                /\ store'[Key(c)].TxHash = h
                /\ store'[Key(c)].Cheque = ChequeAfter(sent[h].To, h - 1)
                /\ store[Key(c)] = SubmittedAction(h, ChequeAfter(sent[h].To, h - 1))
                /\ \A d \in Chequebooks \ {c} :
                      Stored(d) => store'[Key(d)] = store[Key(d)]]_vars

\* a monitor has completed the action of one chequebook while the action of
\* the other chequebook, submitted later, is in flight
C19_Witness ==
    /\ ret.op = "completed"
    /\ ret.err = "nil"
    /\ ret.txHash = 1
    /\ Completed(store[Key(ret.chequebook)])
    /\ \E d \in Chequebooks \ {ret.chequebook} :
          /\ Stored(d)
          /\ store[Key(d)] = SubmittedAction(2, ChequeAfter(d, 1))

\* ---------------------------------------------------------------------- C20
\* the monitors a step has spawned
Spawned == (Len(monitors) + 1) .. Len(monitors')

\* C20: a call of Start leaves the store unchanged and the running monitors as
\* they are; every monitor it spawns is bound to the chequebook and the txHash
\* of a stored action with no result and reverted = false, at most one per
\* action; it returns the store's error when a read of the scan fails and nil
\* when the scan succeeds, and then every such action has got its monitor.
C20_StartSpawnsForInFlightOnly ==
    [][ret'.op = "Start"
         => /\ store' = store
            /\ Len(monitors') >= Len(monitors)
            /\ \A i \in DOMAIN monitors : monitors'[i] = monitors[i]
            /\ \A i \in Spawned :
                  \E c \in Chequebooks :
                     /\ Stored(c)
                     /\ store[Key(c)].Result = Nil
                     /\ store[Key(c)].Reverted = FALSE
                     /\ monitors'[i] = [chequebook |-> c, txHash |-> store[Key(c)].TxHash,
                                        pc |-> "select", action |-> Nil]
            /\ \A i, j \in Spawned :
                  monitors'[i].chequebook = monitors'[j].chequebook => i = j
            /\ ret'.err \in {"nil", "ErrStore"}
            /\ ret'.err = "nil"
                 => \A c \in Chequebooks :
                       (Stored(c) /\ store[Key(c)].Result = Nil /\ ~store[Key(c)].Reverted)
                       => \E i \in Spawned : monitors'[i].chequebook = c]_vars

\* Start has returned nil after the monitor CashCheque spawned had ended with
\* the action still in flight: it has spawned the second monitor, bound to the
\* stored action, and the other chequebook has no action and no monitor
C20_Witness ==
    /\ ret.op = "Start"
    /\ ret.err = "nil"
    /\ Len(monitors) = 2
    /\ monitors[1].pc = "done"
    /\ monitors[2].pc = "select"
    /\ \E c \in Chequebooks :
          /\ Stored(c)
          /\ InFlight(store[Key(c)])
          /\ monitors[2].chequebook = c
          /\ monitors[2].txHash = store[Key(c)].TxHash
          /\ \A d \in Chequebooks \ {c} : ~Stored(d)

\* ---------------------------------------------------------------------- C21
\* C21: every monitor Start spawns for the action stored under the key of
\* chequebook C is the monitor CashCheque spawns for it, that of (C, the
\* action's txHash), the transaction having been sent to C; every live monitor
\* is bound to the chequebook its transaction was sent to; and a monitor that
\* handles its receipt writes under the key of that chequebook only, an action
\* of the watched txHash.
C21_StartMonitorBoundAsCashCheque ==
    /\ [](\A m \in LiveMonitors :
            /\ monitors[m].txHash \in 1 .. Len(sent)
            /\ monitors[m].chequebook = sent[monitors[m].txHash].To)
    /\ [][/\ ret'.op = "Start"
              => \A i \in (Len(monitors) + 1) .. Len(monitors') :
                    \E c \in Chequebooks :
                       /\ Stored(c)
                       /\ store[Key(c)].Cheque.Chequebook = c
                       /\ sent[store[Key(c)].TxHash].To = c
                       /\ monitors'[i] = NewMonitor(c, store[Key(c)].TxHash)
          /\ \A m \in DOMAIN monitors :
                (HandlesReceipt(m) /\ store' # store)
                => LET c == sent[monitors[m].txHash].To
                   IN /\ store'[Key(c)].TxHash = monitors[m].txHash
                      /\ Terminal(store'[Key(c)])
                      /\ \A k \in DOMAIN store' \ {Key(c)} :
                            k \in DOMAIN store /\ store'[k] = store[k]]_vars

\* the only transaction sent had two monitors, that of CashCheque and that of
\* Start, and each has put the completed action under the chequebook's key
C21_Witness ==
    /\ ret.op = "completed"
    /\ ret.err = "nil"
    /\ Len(sent) = 1
    /\ Len(monitors) = 2
    /\ LiveMonitors = {}
    /\ Completed(store[Key(sent[1].To)])
    /\ store[Key(sent[1].To)].TxHash = 1
    /\ termWrites[1] = 2

\* ---------------------------------------------------------------------- C22
\* C22: for every store, chequebook and receipt, processing the receipt twice
\* in a row leaves the store that processing it once leaves (the store and the
\* binding not failing), and a store the receipt does not concern (no action
\* of the chequebook, or one of another transaction) is left as it is.
C22_ProcessingIsIdempotent ==
    (call.fn = "processCashChequeBeneficiaryReceipt" /\ call.out # Nil)
      => LET s == call.args[1]
             c == call.args[2]
             receipt == call.args[3]
             out == Deref(call.out)
         IN /\ out.twice = out.once
            /\ (Key(c) \notin DOMAIN s \/ s[Key(c)].TxHash # receipt.TxHash)
                 => out.once = s
            /\ DOMAIN out.once = DOMAIN s
            /\ \A k \in DOMAIN s \ {Key(c)} : out.once[k] = s[k]

\* a bounced receipt was processed on a store that holds the transaction's
\* action as reverted beside an action of the other chequebook: the action is
\* completed after one processing and after two
C22_Witness ==
    /\ call.fn = "processCashChequeBeneficiaryReceipt"
    /\ call.out # Nil
    /\ LET s == call.args[1]
           c == call.args[2]
           out == Deref(call.out)
       IN /\ DOMAIN s = {Key(d) : d \in Chequebooks}
          /\ s[Key(c)].Reverted
          /\ out.once # s
          /\ Completed(out.once[Key(c)])
          /\ Deref(out.once[Key(c)].Result).Bounced
          /\ out.twice = out.once

\* ---------------------------------------------------------------------- C23
\* no log of the receipt is of the chequebook and decodes as ChequeCashed or
\* as ChequeBounced
NoCashoutEvent(chequebook, receipt) ==
    \A i \in DOMAIN receipt.Logs :
        receipt.Logs[i].Address = chequebook
          => receipt.Logs[i].Cashed = Nil /\ ~receipt.Logs[i].Bounced

\* C23: when a monitor handles a successful receipt of the stored transaction
\* that holds no ChequeCashed and no ChequeBounced event of the chequebook
\* (the binding function and the Put not failing), processing returns nil, the
\* action becomes {same txHash, same cheque, a result with bounced = false,
\* zero addresses and unset payouts, reverted = false} and the notify-bounced
\* function is not called.
C23_EventlessReceiptCompletes ==
    [][\A m \in Monitors :
          (HandlesReceipt(m) /\ ReceiptOf(m).Status = "successful"
             /\ NoCashoutEvent(monitors[m].chequebook, ReceiptOf(m))
             /\ ret'.err \notin {"ErrBinding", "ErrStore"})
          => LET k == Key(monitors[m].chequebook)
             IN /\ ret'.op = "completed"
                /\ ret'.err = "nil"
                /\ store' = [store EXCEPT ![k] =
                      [TxHash |-> store[k].TxHash, Cheque |-> store[k].Cheque,
                       Result |-> Ptr([Beneficiary |-> 0, Recipient |-> 0, Caller |-> 0,
                                       TotalPayout |-> Nil, CumulativePayout |-> Nil,
                                       CallerPayout |-> Nil, Bounced |-> FALSE]),
                       Reverted |-> FALSE]]
                /\ notifyCalls' = notifyCalls
                /\ monitors'[m].pc = "done"
                /\ panicked' = FALSE]_vars

\* a successful receipt whose only log is of another contract has completed
\* the action with an unset result
C23_Witness ==
    /\ ret.op = "completed"
    /\ ret.err = "nil"
    /\ Deref(receipts[ret.txHash]).Status = "successful"
    /\ Deref(receipts[ret.txHash]).Logs = ForeignLogs
    /\ store[Key(ret.chequebook)].TxHash = ret.txHash
    /\ store[Key(ret.chequebook)].Result # Nil
    /\ Deref(store[Key(ret.chequebook)].Result).TotalPayout = Nil
    /\ ~store[Key(ret.chequebook)].Reverted
    /\ notifyCalls[ret.txHash] = 0

\* ---------------------------------------------------------------------- C24
\* the action of transaction h is stored in the terminal state its receipt
\* gives: reverted for a failed receipt, completed with the parsed result for
\* a successful one
TerminalAsReceipt(h) ==
    /\ h \in 1 .. Len(sent)
    /\ receipts[h] # Nil
    /\ LET c == sent[h].To
       IN /\ Stored(c)
          /\ store[Key(c)].TxHash = h
          /\ IF Deref(receipts[h]).Status = "failed"
               THEN store[Key(c)].Reverted /\ store[Key(c)].Result = Nil
               ELSE /\ ~store[Key(c)].Reverted
                    /\ store[Key(c)].Result
                         = Ptr(parseCashChequeBeneficiaryReceipt(c, Deref(receipts[h])))

\* a later CashCheque for the chequebook of transaction h has succeeded
Superseded(h) ==
    /\ h \in 1 .. Len(sent)
    /\ Stored(sent[h].To)
    /\ store[Key(sent[h].To)].TxHash # h

\* a monitor of transaction h has ended on an error of the store or of the
\* binding function
StoreOrBindingFailed(h) ==
    /\ ret.txHash = h
    /\ ret.op \in {"process", "reverted", "completed"}
    /\ ret.err \in {"ErrStore", "ErrBinding"}

\* the receipt of transaction h has been delivered to a monitor of h, which
\* has not processed it yet
ReceiptDelivered(h) ==
    \E m \in DOMAIN monitors : monitors[m].pc = "recv" /\ monitors[m].txHash = h

C24_TerminalUnlessPanicked ==
    \A h \in TxHashes :
        ReceiptDelivered(h)
          ~> (TerminalAsReceipt(h) \/ Superseded(h) \/ StoreOrBindingFailed(h)
                \/ closePc # "open" \/ panicked)

\* ----------------------------------------------------------------------- C25

\* a monitor has just called the notify-bounced function while none was
\* installed
NilNotifyFault == ret.op = "panic"

\* C25: when a monitor processes a bounced receipt while no notify-bounced
\* function has been installed, the fault is contained to that monitor: the
\* process keeps running and the service mutex is released.
C25_NilNotifyIsContained ==
    NilNotifyFault => /\ ~panicked
                      /\ lock = <<"free", 0>>

\* the part of C25 that the deferred Unlock gives: the mutex is released by
\* the faulting monitor before the panic unwinds the goroutine
C25_MutexReleasedByFault ==
    NilNotifyFault => lock = <<"free", 0>>

\* ----------------------------------------------------------------------- C26

\* monitor m is inside the call s.notifyBouncedFunc(chequebook)
InNotify(m) == m \in DOMAIN monitors /\ monitors[m].pc = "notify"

\* the notify-bounced function has just returned an error for transaction h,
\* for the first time
NotifyFailed(h) ==
    /\ ret.op = "notified"
    /\ ret.err = "ErrNotify"
    /\ ret.txHash = h
    /\ notifyCalls[h] = 1

\* while the callback runs for chequebook C the store holds C's action as
\* completed with a bounced result, the calling monitor holds the mutex and
\* neither a CashCheque nor another monitor is inside its critical section
NotifiedUnderLock ==
    \A m \in DOMAIN monitors :
        InNotify(m)
          => /\ Stored(monitors[m].chequebook)
             /\ LET action == store[Key(monitors[m].chequebook)]
                IN /\ action.TxHash = monitors[m].txHash
                   /\ Completed(action)
                   /\ Deref(action.Result).Bounced
                   /\ ~action.Reverted
             /\ lock = <<"monitor", m>>
             /\ \A p \in Callers : ~InCriticalSection(p)
             /\ \A o \in DOMAIN monitors \ {m} :
                    monitors[o].pc \notin {"loaded", "notify"}

\* the return of the callback, with an error or without, leaves the store as
\* it is
NotifyKeepsStore ==
    \A m \in DOMAIN monitors :
        (InNotify(m) /\ ~InNotify(m)') => store' = store

\* Start spawns no monitor for a transaction whose stored action is completed
StartSkipsCompleted ==
    ret'.op = "Start"
      => \A m \in Spawned :
            /\ Stored(monitors'[m].chequebook)
            /\ store[Key(monitors'[m].chequebook)].TxHash = monitors'[m].txHash
            /\ ~Completed(store[Key(monitors'[m].chequebook)])

\* the parts of C26 about the state during the callback and about Start
C26_NotifiedUnderLockAndNotRespawned ==
    /\ []NotifiedUnderLock
    /\ [][NotifyKeepsStore /\ StartSkipsCompleted]_vars

\* C26: whenever the notify-bounced callback is invoked for chequebook C, the
\* store already holds C's action as completed with result.bounced = true and
\* reverted = false, and the service mutex is held for the whole callback (no
\* CashCheque and no other receipt processing runs during it); if the callback
\* returns an error the action stays completed, a later Start spawns no
\* monitor for it and the notification is not attempted again.
C26_NotifiedOnceUnderLock ==
    /\ []NotifiedUnderLock
    /\ [][NotifyKeepsStore /\ StartSkipsCompleted]_vars
    /\ \A h \in TxHashes : [](NotifyFailed(h) => [](notifyCalls[h] = 1))

\* ----------------------------------------------------------------------- C27

\* Close has returned and no new service has been made
Closed == closePc = "returned"

\* the action of chequebook c is written in this step
Written(c) ==
    /\ Key(c) \in DOMAIN store'
    /\ ~Stored(c) \/ store'[Key(c)] # store[Key(c)]

\* C27: after Close has returned no monitor writes to the store: the only
\* write is CashCheque's Put of an action in flight for the transaction it
\* sent; every monitor spawned since waits at its select or has ended, none
\* processes a receipt, and an action in flight stays in flight (for as long
\* as no new service is made over the store).
C27_NoMonitorWriteAfterClose ==
    [][Closed
         => /\ termWrites' = termWrites
            /\ notifyCalls' = notifyCalls
            /\ \A c \in Chequebooks :
                  Written(c)
                    => /\ \E p \in Callers : /\ callers[p].pc = "sent"
                                             /\ callers'[p].pc = "stored"
                                             /\ callers[p].chequebook = c
                       /\ store'[Key(c)] = SubmittedAction(Len(sent), store'[Key(c)].Cheque)
                       /\ sent[Len(sent)].To = c
            /\ \A c \in Chequebooks :
                  (Stored(c) /\ InFlight(store[Key(c)]))
                    => /\ Key(c) \in DOMAIN store'
                       /\ InFlight(store'[Key(c)])
            /\ \A m \in DOMAIN monitors : monitors[m].pc \in {"select", "done"}
            /\ \A m \in DOMAIN monitors' : monitors'[m].pc \in {"select", "done"}]_vars

\* a CashCheque called after Close returned has sent its transaction and put
\* the action, the monitor it spawned has ended at its select, and the action
\* is still in flight
C27_Witness ==
    /\ Closed
    /\ Len(sent) = 2
    /\ Len(monitors) = 2
    /\ LiveMonitors = {}
    /\ ret.op \in {"ctxDone", "chanClosed"}
    /\ ret.who = 2
    /\ ret.txHash = 2
    /\ termWrites[1] = 1
    /\ termWrites[2] = 0
    /\ Stored(sent[2].To)
    /\ store[Key(sent[2].To)].TxHash = 2
    /\ InFlight(store[Key(sent[2].To)])
    /\ \A p \in Callers : callers[p].pc = "idle"
====
